---- MODULE Spec2Model ----
(***************************************************************************)
(* Milestone funnel analysis of ahitool: the per-job analysis state        *)
(* machine (src/src/jobs.rs), the JobTracker bucket grid                   *)
(* (src/src/job_tracker.rs) and the KPI aggregation loop                   *)
(* (src/src/tools/kpi.rs).                                                 *)
(*                                                                         *)
(* Option<T> is modelled as a sequence of length at most one: None is <<>> *)
(* and Some(x) is <<x>>.  Timestamps are integers (one unit of time) and a *)
(* TimeDelta is the integer difference of two timestamps.                  *)
(***************************************************************************)
EXTENDS Integers, Sequences, FiniteSets, TLC

VARIABLES
    job,                \* analysis: the Job handed to AnalyzedJob::try_from
    result,             \* analysis: what try_from returned (Pending before the call)
    mask,               \* tracker: the applicability mask given to JobTracker::new
    buckets,            \* tracker: JobTracker.buckets
    calls,              \* tracker: history of the add_job calls made so far
    date_range,         \* kpi: settled_date_range of process_jobs
    abandon_date,       \* kpi: abandon_date of process_jobs
    trackers,           \* kpi: BTreeMap<KpiSubject, JobTracker3x5>
    red_flags,          \* kpi: BTreeMap<KpiSubject, Vec<(job, error)>>
    unsettled_jobs,     \* kpi: Vec of unsettled jobs
    abandoned_jobs,     \* kpi: Vec of abandoned jobs
    milestoneless_jobs, \* kpi: Vec of milestoneless jobs
    processed,          \* kpi: history of the jobs the loop has consumed
    panicked            \* kpi: a fatal assertion or expect-failure was reached

vars == <<job, result, mask, buckets, calls, date_range, abandon_date, trackers,
          red_flags, unsettled_jobs, abandoned_jobs, milestoneless_jobs,
          processed, panicked>>

analysisVars == <<job, result>>
trackerVars == <<mask, buckets, calls>>
kpiVars == <<date_range, abandon_date, trackers, red_flags, unsettled_jobs,
             abandoned_jobs, milestoneless_jobs, processed, panicked>>

-----------------------------------------------------------------------------
(* Bounds of the model. *)

\* latest timestamp a job handed to the analysis may carry
MaxDate == 4
\* latest timestamp an add_job call on the stand-alone tracker may carry
MaxStamp == 2
\* number of add_job calls made on the stand-alone tracker
MaxCalls == 2
\* longest kinds slice handed to calc_stats
MaxKinds == 2
\* latest timestamp a job of a process_jobs batch may carry
MaxKpiDate == 2
\* number of jobs in a process_jobs batch
MaxBatch == 2

\* the sales representatives that own jobs
Reps == {"A"}

-----------------------------------------------------------------------------
(* Option<T> *)

None == <<>>

Some(x) == <<x>>

is_some(o) == o # <<>>

is_none(o) == o = <<>>

unwrap(o) == o[1]

OptionOf(S) == {None} \cup {Some(x) : x \in S}

-----------------------------------------------------------------------------
(* Milestone and JobKind *)

LeadAcquired == 0
AppointmentMade == 1
ContingencySigned == 2
ContractSigned == 3
Installed == 4

\* Milestone::NUM_VARIANTS
NumMilestones == 5

InsuranceWithContingency == 0
InsuranceWithoutContingency == 1
Retail == 2

\* JobKind::NUM_VARIANTS
NumKinds == 3

Milestones == 0 .. (NumMilestones - 1)

Kinds == 0 .. (NumKinds - 1)

\* impl Index<Milestone> for MilestoneDates
MilestoneDatesIndex(dates, stage) ==
    CASE stage = LeadAcquired -> None
      [] stage = AppointmentMade -> dates.appointment_date
      [] stage = ContingencySigned -> dates.contingency_date
      [] stage = ContractSigned -> dates.contract_date
      [] stage = Installed -> dates.install_date

\* timestamps_up_to that stops one milestone early
timestamps_up_to_exclusive(dates, stage) ==
    [i \in 1 .. stage |-> MilestoneDatesIndex(dates, i - 1)]

\* MilestoneDates::timestamps_up_to: ordered_iter().take_while(s <= stage).map(self[s])
timestamps_up_to(dates, stage) ==
    [i \in 1 .. (stage + 1) |-> MilestoneDatesIndex(dates, i - 1)]

-----------------------------------------------------------------------------
(* JobAnalysisError *)

ContingencyWithoutInsurance == [tag |-> "ContingencyWithoutInsurance", arg |-> None]

InconsistentInsuranceInfo == [tag |-> "InconsistentInsuranceInfo", arg |-> None]

\* OutOfOrderDates(Option<Milestone>)
OutOfOrderDates(m) == [tag |-> "OutOfOrderDates", arg |-> m]

\* SkippedDates(Milestone)
SkippedDates(m) == [tag |-> "SkippedDates", arg |-> Some(m)]

-----------------------------------------------------------------------------
(* impl TryFrom<Job> for AnalyzedJob *)

Ok(v) == [tag |-> "Ok", value |-> v]

Err(j, e) == [tag |-> "Err", job |-> j, error |-> e]

\* contingency_without_claim that only rejects jobs without the insurance flag
contingency_without_claim_unflagged(j, milestone) ==
    /\ milestone = ContingencySigned
    /\ ~j.insurance_checkbox
    /\ is_none(j.insurance_claim_number)

\* `milestone == ContingencySigned && job.insurance_claim_number.is_none()`
contingency_without_claim(j, milestone) ==
    milestone = ContingencySigned /\ is_none(j.insurance_claim_number)

\* reclassifies_kind that does not look at the claim number
reclassifies_kind_without_claim(j, milestone) ==
    /\ milestone = ContractSigned
    /\ is_none(j.milestone_dates.contingency_date)

\* reclassifies_kind that does not look at the contingency date
reclassifies_kind_ignoring_contingency(j, milestone) ==
    /\ milestone = ContractSigned
    /\ is_some(j.insurance_claim_number)

\* `milestone == ContractSigned && contingency_date.is_none() && claim_number.is_some()`
reclassifies_kind(j, milestone) ==
    /\ milestone = ContractSigned
    /\ is_none(j.milestone_dates.contingency_date)
    /\ is_some(j.insurance_claim_number)

\* date_precedes with the comparison reversed
date_precedes_reversed(date, previous_date) ==
    is_some(previous_date) /\ unwrap(date) > unwrap(previous_date)

\* date_precedes that also rejects a date equal to the previous one
date_precedes_or_equal(date, previous_date) ==
    is_some(previous_date) /\ unwrap(date) <= unwrap(previous_date)

\* `if let Some(previous_date) = previous_date { if date < previous_date {...} }`
date_precedes(date, previous_date) ==
    is_some(previous_date) /\ unwrap(date) < unwrap(previous_date)

\* ends_progress without the exception for the contingency date
ends_progress_always(milestone) == milestone \in Milestones

\* ends_progress that only stops at an absent appointment date
ends_progress_appointment_only(milestone) == milestone = AppointmentMade

\* `if milestone != Milestone::ContingencySigned { in_progress = false; }`
ends_progress(milestone) == milestone # ContingencySigned

\* One iteration of `for milestone in Milestone::ordered_iter().skip(1)`.
\* st.ret is None while the function has not returned, Some(error) once it has.
try_from_step(j, milestone, st) ==
    LET date == MilestoneDatesIndex(j.milestone_dates, milestone) IN
    IF st.in_progress
    THEN IF is_some(date)
         THEN LET st1 == [st EXCEPT !.current_milestone = milestone] IN
              IF contingency_without_claim(j, milestone)
              THEN [st1 EXCEPT !.ret = Some(ContingencyWithoutInsurance)]
              ELSE LET st2 ==
                         IF reclassifies_kind(j, milestone)
                         THEN [st1 EXCEPT !.kind = InsuranceWithoutContingency]
                         ELSE st1
                   IN IF date_precedes(date, st2.previous_date)
                      THEN [st2 EXCEPT !.ret = Some(OutOfOrderDates(Some(milestone)))]
                      ELSE [st2 EXCEPT !.previous_date = date]
         ELSE IF ends_progress(milestone)
              THEN [st EXCEPT !.in_progress = FALSE]
              ELSE st
    ELSE IF is_some(date)
         THEN [st EXCEPT !.ret = Some(SkippedDates(st.current_milestone))]
         ELSE st

RECURSIVE try_from_loop(_, _, _)
try_from_loop(j, milestone, st) ==
    IF milestone >= NumMilestones \/ is_some(st.ret)
    THEN st
    ELSE try_from_loop(j, milestone + 1, try_from_step(j, milestone, st))

\* inconsistent_insurance_info that only looks at the claim number
inconsistent_insurance_info_claim_only(j) ==
    ~j.insurance_checkbox /\ is_some(j.insurance_claim_number)

\* the else branch of `if job.insurance_checkbox`:
\* `insurance_company_name.is_some() || insurance_claim_number.is_some()`
inconsistent_insurance_info(j) ==
    /\ ~j.insurance_checkbox
    /\ (is_some(j.insurance_company_name) \/ is_some(j.insurance_claim_number))

\* loss_date_precedes that also rejects a loss on the day of the last milestone
loss_date_precedes_or_equal(loss_date, previous_date) ==
    /\ is_some(loss_date)
    /\ is_some(previous_date)
    /\ unwrap(loss_date) <= unwrap(previous_date)

\* `if let Some(loss_date) ... if let Some(previous_date) ... loss_date < previous_date`
loss_date_precedes(loss_date, previous_date) ==
    /\ is_some(loss_date)
    /\ is_some(previous_date)
    /\ unwrap(loss_date) < unwrap(previous_date)

try_from(j) ==
    IF inconsistent_insurance_info(j)
    THEN Err(j, InconsistentInsuranceInfo)
    ELSE
    LET st0 == [previous_date |-> None,
                current_milestone |-> LeadAcquired,
                in_progress |-> TRUE,
                kind |-> IF j.insurance_checkbox THEN InsuranceWithContingency ELSE Retail,
                ret |-> None]
        st == try_from_loop(j, AppointmentMade, st0)
        loss_date == j.milestone_dates.loss_date
    IN IF is_some(st.ret)
       THEN Err(j, unwrap(st.ret))
       ELSE IF loss_date_precedes(loss_date, st.previous_date)
            THEN Err(j, OutOfOrderDates(None))
            ELSE Ok([job |-> j,
                     kind |-> st.kind,
                     timestamps |-> timestamps_up_to(j.milestone_dates, st.current_milestone),
                     loss_timestamp |-> loss_date])

\* AnalyzedJob::is_settled
is_settled(a) == is_some(a.loss_timestamp) \/ Len(a.timestamps) = NumMilestones

-----------------------------------------------------------------------------
(* The analysis in isolation: one Job, one call of try_from. *)

Pending == [tag |-> "Pending"]

OptDates(max) == OptionOf(1 .. max)

MilestoneDatesSet(max) ==
    [appointment_date : OptDates(max),
     contingency_date : OptDates(max),
     contract_date : OptDates(max),
     install_date : OptDates(max),
     loss_date : OptDates(max)]

\* struct Job; job_number and customer_name are never read by the analysis
JobSet(ids, reps, dates) ==
    [jnid : ids,
     milestone_dates : dates,
     sales_rep : OptionOf(reps),
     insurance_checkbox : BOOLEAN,
     insurance_claim_number : OptionOf({"123"}),
     insurance_company_name : OptionOf({"Gekko"})]

StandardMask ==
    [k \in Kinds |-> [m \in Milestones |->
        IF k = InsuranceWithContingency THEN TRUE ELSE m # ContingencySigned]]

-----------------------------------------------------------------------------
(* JobTracker<M, N, J> with M = NumKinds and N = NumMilestones (JobTracker3x5) *)

\* impl Default for Bucket
BucketDefault == [achieved |-> <<>>, cum_achieve_time |-> 0, cum_loss_time |-> 0]

\* JobTracker::new
JobTracker_new(msk) ==
    [k \in Kinds |-> [m \in Milestones |->
        IF msk[k][m] THEN Some(BucketDefault) ELSE None]]

\* build_job_tracker
build_job_tracker == JobTracker_new(StandardMask)

SetMin(S) == CHOOSE x \in S : \A y \in S : x <= y

SetMax(S) == CHOOSE x \in S : \A y \in S : y <= x

\* JobTracker::get_bucket
get_bucket(bk, kind, milestone) == bk[kind][milestone]

\* bucket_before that looks at the adjacent cell only
bucket_before_adjacent(bk, kind, milestone) ==
    IF milestone = 0 THEN None ELSE bk[kind][milestone - 1]

\* JobTracker::bucket_before: (0..milestone).rev().find_map(...)
bucket_before(bk, kind, milestone) ==
    LET found == {ms \in 0 .. (milestone - 1) : is_some(bk[kind][ms])} IN
    IF found = {} THEN None ELSE bk[kind][SetMax(found)]

\* bucket_after that scans the row from its end
bucket_after_last(bk, kind, milestone) ==
    LET found == {ms \in (milestone + 1) .. (NumMilestones - 1) : is_some(bk[kind][ms])} IN
    IF found = {} THEN None ELSE Some(SetMax(found))

\* JobTracker::bucket_after: ((milestone + 1)..N).find(...); the index of the bucket
bucket_after(bk, kind, milestone) ==
    LET found == {ms \in (milestone + 1) .. (NumMilestones - 1) : is_some(bk[kind][ms])} IN
    IF found = {} THEN None ELSE Some(SetMin(found))

\* add_job_step that counts a job only where its timestamp is known
add_job_step_timestamped_only(st, j, kind, milestone, timestamp) ==
    IF is_none(st.buckets[kind][milestone])
    THEN IF is_some(timestamp) THEN [st EXCEPT !.panic = TRUE] ELSE st
    ELSE IF is_some(timestamp)
         THEN LET bucket == unwrap(st.buckets[kind][milestone])
                  time_till_this_milestone ==
                      IF is_some(st.latest_timestamp)
                      THEN unwrap(timestamp) - unwrap(st.latest_timestamp)
                      ELSE 0
              IN [st EXCEPT
                     !.buckets[kind][milestone] =
                         Some([bucket EXCEPT
                                  !.achieved = Append(@, j),
                                  !.cum_achieve_time = @ + time_till_this_milestone]),
                     !.latest_timestamp = timestamp]
         ELSE st

\* add_job_step that forgets the latest timestamp at a milestone without one
add_job_step_forgetting_gap(st, j, kind, milestone, timestamp) ==
    IF is_none(st.buckets[kind][milestone])
    THEN IF is_some(timestamp) THEN [st EXCEPT !.panic = TRUE] ELSE st
    ELSE LET bucket == unwrap(st.buckets[kind][milestone])
             pushed == [bucket EXCEPT !.achieved = Append(@, j)]
         IN IF is_some(timestamp)
            THEN LET time_till_this_milestone ==
                         IF is_some(st.latest_timestamp)
                         THEN unwrap(timestamp) - unwrap(st.latest_timestamp)
                         ELSE 0
                 IN [st EXCEPT
                        !.buckets[kind][milestone] =
                            Some([pushed EXCEPT !.cum_achieve_time = @ + time_till_this_milestone]),
                        !.latest_timestamp = timestamp]
            ELSE [st EXCEPT !.buckets[kind][milestone] = Some(pushed),
                            !.latest_timestamp = None]

\* add_job_step that overwrites cum_achieve_time instead of adding to it
add_job_step_overwriting(st, j, kind, milestone, timestamp) ==
    IF is_none(st.buckets[kind][milestone])
    THEN IF is_some(timestamp) THEN [st EXCEPT !.panic = TRUE] ELSE st
    ELSE LET bucket == unwrap(st.buckets[kind][milestone])
             pushed == [bucket EXCEPT !.achieved = Append(@, j)]
         IN IF is_some(timestamp)
            THEN LET time_till_this_milestone ==
                         IF is_some(st.latest_timestamp)
                         THEN unwrap(timestamp) - unwrap(st.latest_timestamp)
                         ELSE 0
                 IN [st EXCEPT
                        !.buckets[kind][milestone] =
                            Some([pushed EXCEPT !.cum_achieve_time = time_till_this_milestone]),
                        !.latest_timestamp = timestamp]
            ELSE [st EXCEPT !.buckets[kind][milestone] = Some(pushed)]

\* One iteration of `for (milestone, &timestamp) in timestamps.iter().enumerate()`.
add_job_step(st, j, kind, milestone, timestamp) ==
    IF is_none(st.buckets[kind][milestone])
    THEN IF is_some(timestamp) THEN [st EXCEPT !.panic = TRUE] ELSE st
    ELSE LET bucket == unwrap(st.buckets[kind][milestone])
             pushed == [bucket EXCEPT !.achieved = Append(@, j)]
         IN IF is_some(timestamp)
            THEN LET time_till_this_milestone ==
                         IF is_some(st.latest_timestamp)
                         THEN unwrap(timestamp) - unwrap(st.latest_timestamp)
                         ELSE 0
                 IN [st EXCEPT
                        !.buckets[kind][milestone] =
                            Some([pushed EXCEPT !.cum_achieve_time = @ + time_till_this_milestone]),
                        !.latest_timestamp = timestamp]
            ELSE [st EXCEPT !.buckets[kind][milestone] = Some(pushed)]

RECURSIVE add_job_loop(_, _, _, _, _)
add_job_loop(st, j, kind, timestamps, i) ==
    IF i > Len(timestamps) \/ st.panic
    THEN st
    ELSE add_job_loop(add_job_step(st, j, kind, i - 1, timestamps[i]),
                      j, kind, timestamps, i + 1)

\* JobTracker::add_job.  panic is TRUE when an assert! or expect fails; the
\* buckets are then whatever the unwinding left behind.
add_job(bk, j, kind, timestamps, loss_timestamp) ==
    IF ~(Len(timestamps) > 0 /\ Len(timestamps) <= NumMilestones)
    THEN [buckets |-> bk, latest_timestamp |-> None, panic |-> TRUE]
    ELSE
    LET st == add_job_loop([buckets |-> bk, latest_timestamp |-> None, panic |-> FALSE],
                           j, kind, timestamps, 1)
    IN IF st.panic THEN st
       ELSE IF is_some(loss_timestamp)
            THEN LET loss_time ==
                         IF is_some(st.latest_timestamp)
                         THEN unwrap(loss_timestamp) - unwrap(st.latest_timestamp)
                         ELSE 0
                     after == bucket_after(st.buckets, kind, Len(timestamps) - 1)
                 IN IF is_none(after)
                    THEN [st EXCEPT !.panic = TRUE]
                    ELSE [st EXCEPT !.buckets[kind][unwrap(after)] =
                            Some([unwrap(@) EXCEPT !.cum_loss_time = @ + loss_time])]
            ELSE IF Len(timestamps) = NumMilestones
                 THEN st
                 ELSE [st EXCEPT !.panic = TRUE]

RECURSIVE Gcd(_, _)
Gcd(a, b) == IF b = 0 THEN a ELSE Gcd(b, a % b)

\* `n as f64 / d as f64` for d > 0: the quotient, as a fraction in lowest terms
Ratio(n, d) == LET g == Gcd(n, d) IN <<n \div g, d \div g>>

RECURSIVE FlattenAchieved(_)
FlattenAchieved(bs) ==
    IF bs = <<>> THEN <<>> ELSE Head(bs).achieved \o FlattenAchieved(Tail(bs))

RECURSIVE SumSeq(_)
SumSeq(s) == IF s = <<>> THEN 0 ELSE Head(s) + SumSeq(Tail(s))

Panicked == [tag |-> "Panicked"]

\* potential_of that takes the count of the next applicable bucket
potential_of_after(bk, milestone, kind, bucket) ==
    LET after == bucket_after(bk, kind, milestone) IN
    IF is_some(after)
    THEN Len(unwrap(bk[kind][unwrap(after)]).achieved)
    ELSE Len(bucket.achieved)

\* calc_stats: the potential of one requested kind
potential_of(bk, milestone, kind, bucket) ==
    LET before == bucket_before(bk, kind, milestone) IN
    IF is_some(before) THEN Len(unwrap(before).achieved) ELSE Len(bucket.achieved)

\* conversion_rate_of that tests the numerator for zero
conversion_rate_of_total(num_total, num_potential) ==
    IF num_total = 0 THEN None ELSE Some(Ratio(num_total, num_potential))

\* calc_stats: `let conversion_rate = if num_potential == 0 { None } else { ... }`
conversion_rate_of(num_total, num_potential) ==
    IF num_potential = 0 THEN None ELSE Some(Ratio(num_total, num_potential))

\* total_time_to_achieve_of that sums the loss times
total_time_to_achieve_of_loss(bs) ==
    SumSeq([i \in 1 .. Len(bs) |-> bs[i].cum_loss_time])

\* calc_stats: buckets.iter().map(|bucket| bucket.cum_achieve_time).sum()
total_time_to_achieve_of(bs) ==
    SumSeq([i \in 1 .. Len(bs) |-> bs[i].cum_achieve_time])

\* calc_stats: `let average_time_to_achieve = if num_total == 0 { zero } else { ... }`
average_time_to_achieve_of(total_time, num_total) ==
    IF num_total = 0 THEN 0 ELSE total_time \div num_total

\* calc_stats that leaves out the kinds without a bucket at the milestone
calc_stats_skipping_missing(bk, milestone, kinds) ==
    LET present == SelectSeq(kinds, LAMBDA k : is_some(bk[k][milestone]))
        bucketsV == [i \in 1 .. Len(present) |-> unwrap(bk[present[i]][milestone])]
        total == FlattenAchieved(bucketsV)
        num_potential ==
            SumSeq([i \in 1 .. Len(present) |->
                        potential_of(bk, milestone, present[i], bucketsV[i])])
    IN [tag |-> "CalcStatsResult",
        achieved |-> total,
        conversion_rate |-> conversion_rate_of(Len(total), num_potential),
        average_time_to_achieve |->
            average_time_to_achieve_of(total_time_to_achieve_of(bucketsV), Len(total))]

\* JobTracker::calc_stats
calc_stats(bk, milestone, kinds) ==
    IF \E i \in 1 .. Len(kinds) : is_none(bk[kinds[i]][milestone])
    THEN Panicked
    ELSE
    LET bucketsV == [i \in 1 .. Len(kinds) |-> unwrap(bk[kinds[i]][milestone])]
        total == FlattenAchieved(bucketsV)
        num_total == Len(total)
        num_potential ==
            SumSeq([i \in 1 .. Len(kinds) |->
                        potential_of(bk, milestone, kinds[i], bucketsV[i])])
    IN [tag |-> "CalcStatsResult",
        achieved |-> total,
        conversion_rate |-> conversion_rate_of(num_total, num_potential),
        average_time_to_achieve |->
            average_time_to_achieve_of(total_time_to_achieve_of(bucketsV), num_total)]

\* SelectNotIn without the filter
SelectAll(s, t) == s

\* calc_stats_of_loss: `.filter(|job| !installed.contains(job))`
SelectNotIn(s, t) == SelectSeq(s, LAMBDA x : \A i \in 1 .. Len(t) : t[i] # x)

\* row_loss_time with skip(1)
row_loss_time_skip_one(row) ==
    SumSeq([i \in 1 .. (NumMilestones - 1) |->
        IF is_some(row[i]) THEN unwrap(row[i]).cum_loss_time ELSE 0])

\* calc_stats_of_loss: row.iter().skip(2).filter_map(|b| b.as_ref()), summed
row_loss_time(row) ==
    SumSeq([i \in 1 .. (NumMilestones - 2) |->
        IF is_some(row[i + 1]) THEN unwrap(row[i + 1]).cum_loss_time ELSE 0])

\* One iteration of `for row in self.buckets.iter()` of calc_stats_of_loss.
calc_stats_of_loss_row(bk, kind, acc) ==
    LET row == bk[kind]
        loss_time == row_loss_time(row)
    IN IF is_none(row[NumMilestones - 1]) \/ is_none(row[1])
       THEN [acc EXCEPT !.panic = TRUE]
       ELSE [acc EXCEPT
                !.total_loss_time = @ + loss_time,
                !.total_lost = @ \o SelectNotIn(unwrap(row[1]).achieved,
                                                unwrap(row[NumMilestones - 1]).achieved)]

RECURSIVE calc_stats_of_loss_loop(_, _, _)
calc_stats_of_loss_loop(bk, kind, acc) ==
    IF kind >= NumKinds \/ acc.panic
    THEN acc
    ELSE calc_stats_of_loss_loop(bk, kind + 1, calc_stats_of_loss_row(bk, kind, acc))

\* JobTracker::calc_stats_of_loss
calc_stats_of_loss(bk) ==
    LET acc == calc_stats_of_loss_loop(bk, 0,
                   [total_lost |-> <<>>, total_loss_time |-> 0, panic |-> FALSE])
    IN IF acc.panic
       THEN Panicked
       ELSE [tag |-> "LossStats",
             lost |-> acc.total_lost,
             average_loss_time |->
                 IF Len(acc.total_lost) = 0
                 THEN 0
                 ELSE acc.total_loss_time \div Len(acc.total_lost)]

-----------------------------------------------------------------------------
(* The tracker in isolation: a fresh tracker and a sequence of add_job calls *)
(* that meet add_job's documented preconditions.                             *)

\* a mask whose rows skip different milestones, the first one included
RaggedMask ==
    [k \in Kinds |-> [m \in Milestones |->
        CASE k = 0 -> TRUE
          [] k = 1 -> m \notin {LeadAcquired, ContingencySigned}
          [] k = 2 -> m # ContractSigned]]

Masks == {StandardMask, RaggedMask}

\* the Some entries of a timestamps slice, in order
SomeValues(ts) == SelectSeq(ts, LAMBDA o : is_some(o))

NonDecreasing(ts) ==
    LET v == SomeValues(ts) IN
    \A i, k \in 1 .. Len(v) : i < k => unwrap(v[i]) <= unwrap(v[k])

\* timestamps slices: the dates that are known are in order, and the date of
\* LeadAcquired is known only for a job that got no further
StampSeqs ==
    UNION {{ts \in [1 .. n -> OptionOf(1 .. MaxStamp)] :
               (ts[1] = None \/ n = 1) /\ NonDecreasing(ts)} : n \in 1 .. NumMilestones}

LossStamps(ts) ==
    {None} \cup {Some(t) : t \in {u \in 1 .. MaxStamp :
                     \A i \in 1 .. Len(ts) : is_some(ts[i]) => unwrap(ts[i]) <= u}}

KindSeqs == UNION {[1 .. n -> Kinds] : n \in 0 .. MaxKinds}

-----------------------------------------------------------------------------
(* KPI aggregation: tools::kpi::processing::process_jobs *)

\* enum KpiSubject
Global == [tag |-> "Global", name |-> None]

SalesRep(name) == [tag |-> "SalesRep", name |-> Some(name)]

UnknownSalesRep == [tag |-> "UnknownSalesRep", name |-> None]

\* jobs::analyze_job: the analysis of try_from and the errors it reported.
\* The jobs of a batch carry distinct jnids, so the shared Arc<AnalyzedJob> is
\* identified by its jnid.
analyze_job(j) ==
    LET r == try_from(j) IN
    [job |-> j.jnid,
     sales_rep |-> j.sales_rep,
     analysis |-> IF r.tag = "Ok"
                  THEN Some([kind |-> r.value.kind,
                             timestamps |-> r.value.timestamps,
                             loss_timestamp |-> r.value.loss_timestamp])
                  ELSE None,
     errors |-> IF r.tag = "Ok" THEN <<>> ELSE <<r.error>>]

\* the most recent known timestamp of a timestamps vector
last_update(a) ==
    LET known == {i \in 1 .. Len(a.timestamps) : is_some(a.timestamps[i])} IN
    IF known = {} THEN None ELSE a.timestamps[SetMax(known)]

\* the date at which a settled job was settled: its loss, else its last milestone
date_settled(a) ==
    IF ~is_settled(a) THEN None
    ELSE IF is_some(a.loss_timestamp) THEN a.loss_timestamp
    ELSE a.timestamps[Len(a.timestamps)]

\* trackers.entry(subject).or_insert_with(build_job_tracker)
entry_or_insert(trk, subject) ==
    IF subject \in DOMAIN trk THEN trk
    ELSE [s \in DOMAIN trk \cup {subject} |->
             IF s = subject THEN build_job_tracker ELSE trk[s]]

\* trackers.entry(subject).or_insert_with(build_job_tracker).add_job(...)
tracker_add(st, subject, analyzed, a) ==
    IF st.panicked THEN st
    ELSE LET trk == entry_or_insert(st.trackers, subject)
             r == add_job(trk[subject], analyzed.job, a.kind, a.timestamps, a.loss_timestamp)
         IN [st EXCEPT !.trackers = [trk EXCEPT ![subject] = r.buckets],
                       !.panicked = r.panic]

\* red_flags.entry(target).or_default(), then one push per error
red_flags_push(flags, target, analyzed) ==
    LET entries == [i \in 1 .. Len(analyzed.errors) |->
                        [job |-> analyzed.job, error |-> analyzed.errors[i]]]
    IN [s \in DOMAIN flags \cup {target} |->
           IF s = target
           THEN (IF s \in DOMAIN flags THEN flags[s] ELSE <<>>) \o entries
           ELSE flags[s]]

\* abandoned_before that also counts an update on the cutoff day
abandoned_before_or_on(updated, abandon) == unwrap(updated) <= abandon

\* `if last_update < abandon_date`
abandoned_before(updated, abandon) == unwrap(updated) < abandon

\* route_analysis that files a job without timestamps under unsettled_jobs
route_analysis_without_milestoneless(st, range, abandon, analyzed, target, analysis, settled, updated) ==
    IF is_some(settled)
    THEN IF /\ (is_none(range.from_date) \/ unwrap(settled) >= unwrap(range.from_date))
            /\ (is_none(range.to_date) \/ unwrap(settled) <= unwrap(range.to_date))
         THEN tracker_add(tracker_add(st, Global, analyzed, analysis),
                          target, analyzed, analysis)
         ELSE st
    ELSE IF is_some(updated) /\ abandoned_before(updated, abandon)
         THEN [st EXCEPT !.abandoned_jobs = Append(@, analyzed.job)]
         ELSE [st EXCEPT !.unsettled_jobs = Append(@, analyzed.job)]

\* `if let Some(date_settled) ... else if let Some(last_update) ... else ...`
route_analysis(st, range, abandon, analyzed, target, analysis, settled, updated) ==
    IF is_some(settled)
    THEN IF /\ (is_none(range.from_date) \/ unwrap(settled) >= unwrap(range.from_date))
            /\ (is_none(range.to_date) \/ unwrap(settled) <= unwrap(range.to_date))
         THEN tracker_add(tracker_add(st, Global, analyzed, analysis),
                          target, analyzed, analysis)
         ELSE st
    ELSE IF is_some(updated)
         THEN IF abandoned_before(updated, abandon)
              THEN [st EXCEPT !.abandoned_jobs = Append(@, analyzed.job)]
              ELSE [st EXCEPT !.unsettled_jobs = Append(@, analyzed.job)]
         ELSE [st EXCEPT !.milestoneless_jobs = Append(@, analyzed.job)]

\* `if !errors.is_empty() { ... }`; never reached once add_job has panicked
flag_errors(st, target, analyzed) ==
    IF st.panicked \/ analyzed.errors = <<>>
    THEN st
    ELSE [st EXCEPT !.red_flags = red_flags_push(@, target, analyzed)]

\* target_of that reports every job under the Global subject
target_of_global(analyzed) == Global

\* the KpiSubject a job is reported under
target_of(analyzed) ==
    IF is_some(analyzed.sales_rep)
    THEN SalesRep(unwrap(analyzed.sales_rep))
    ELSE UnknownSalesRep

\* `if let AnalyzedJob { analysis: Some(analysis), .. } = analyzed.as_ref()`
process_analyzed(st, range, abandon, analyzed, target) ==
    flag_errors(
        IF is_some(analyzed.analysis)
        THEN route_analysis(st, range, abandon, analyzed, target,
                            unwrap(analyzed.analysis),
                            date_settled(unwrap(analyzed.analysis)),
                            last_update(unwrap(analyzed.analysis)))
        ELSE st,
        target, analyzed)

\* The body of `for job in jobs` of process_jobs on an analyzed job.
process_job(st, range, abandon, analyzed) ==
    process_analyzed(st, range, abandon, analyzed, target_of(analyzed))

-----------------------------------------------------------------------------
(* tools::kpi::processing::calculate_job_tracker_stats and calculate_kpi *)

\* num_insure_appts that counts one insurance kind only
num_insure_appts_with_contingency_only(bk) ==
    Len(calc_stats(bk, AppointmentMade, <<InsuranceWithContingency>>).achieved)

\* `tracker.calc_stats(AppointmentMade, &[iwc, iwo]).achieved.len()`
num_insure_appts(bk) ==
    Len(calc_stats(bk, AppointmentMade,
                   <<InsuranceWithContingency, InsuranceWithoutContingency>>).achieved)

\* the ConversionStats built from one bucket and the insurance appointments
bucket_conversion(bucket, insure_appts) ==
    [achieved |-> bucket.achieved,
     conversion_rate |->
         IF insure_appts = 0 THEN None
         ELSE Some(Ratio(Len(bucket.achieved), insure_appts)),
     average_time_to_achieve |->
         IF Len(bucket.achieved) = 0 THEN 0
         ELSE bucket.cum_achieve_time \div Len(bucket.achieved)]

\* the ConversionStats built from a CalcStatsResult
conversion_stats(r) ==
    [achieved |-> r.achieved,
     conversion_rate |-> r.conversion_rate,
     average_time_to_achieve |-> r.average_time_to_achieve]

\* loss_conv: the lost jobs of calc_stats_of_loss over the appointment count
loss_conversion(loss, appt_count) ==
    [achieved |-> loss.lost,
     conversion_rate |->
         IF appt_count = 0 THEN None ELSE Some(Ratio(Len(loss.lost), appt_count)),
     average_time_to_achieve |-> loss.average_loss_time]

\* the cells calculate_job_tracker_stats reads through calc_stats, get_bucket
\* and calc_stats_of_loss; it panics on a tracker that lacks one of them
stats_cells_exist(bk) ==
    /\ \A k \in Kinds : is_some(bk[k][AppointmentMade]) /\ is_some(bk[k][Installed])
    /\ is_some(get_bucket(bk, InsuranceWithContingency, ContingencySigned))
    /\ is_some(get_bucket(bk, InsuranceWithoutContingency, ContractSigned))
    /\ is_some(bk[InsuranceWithContingency][ContractSigned])
    /\ is_some(bk[Retail][ContractSigned])

AllKinds == <<InsuranceWithContingency, InsuranceWithoutContingency, Retail>>

\* calculate_job_tracker_stats
calculate_job_tracker_stats(bk) ==
    IF ~stats_cells_exist(bk)
    THEN Panicked
    ELSE [tag |-> "JobTrackerStats",
          appt_count |-> Len(calc_stats(bk, AppointmentMade, AllKinds).achieved),
          install_count |-> Len(calc_stats(bk, Installed, AllKinds).achieved),
          loss_conv |->
              loss_conversion(calc_stats_of_loss(bk),
                              Len(calc_stats(bk, AppointmentMade, AllKinds).achieved)),
          appt_continge_conv |->
              bucket_conversion(
                  unwrap(get_bucket(bk, InsuranceWithContingency, ContingencySigned)),
                  num_insure_appts(bk)),
          appt_contract_insure_conv |->
              bucket_conversion(
                  unwrap(get_bucket(bk, InsuranceWithoutContingency, ContractSigned)),
                  num_insure_appts(bk)),
          continge_contract_conv |->
              conversion_stats(calc_stats(bk, ContractSigned, <<InsuranceWithContingency>>)),
          appt_contract_retail_conv |->
              conversion_stats(calc_stats(bk, ContractSigned, <<Retail>>)),
          install_insure_conv |->
              conversion_stats(calc_stats(bk, Installed,
                  <<InsuranceWithContingency, InsuranceWithoutContingency>>)),
          install_retail_conv |->
              conversion_stats(calc_stats(bk, Installed, <<Retail>>))]

\* has_appointments that looks at the installs
has_installs(stats) == stats.install_count > 0

\* calculate_kpi: `.filter(|(_, stats)| stats.appt_count > 0)`
has_appointments(stats) == stats.appt_count > 0

\* calculate_kpi: stats_by_rep, from the trackers process_jobs returned
stats_by_rep(trk) ==
    [s \in {t \in DOMAIN trk : has_appointments(calculate_job_tracker_stats(trk[t]))} |->
        calculate_job_tracker_stats(trk[s])]

InitIdleAnalysis ==
    /\ job = CHOOSE j \in JobSet({"0"}, {}, MilestoneDatesSet(0)) : TRUE
    /\ result = Pending

AnalysisInit ==
    /\ job \in JobSet({"0"}, {}, MilestoneDatesSet(MaxDate))
    /\ result = Pending

Analyze ==
    /\ result = Pending
    /\ result' = try_from(job)
    /\ UNCHANGED <<job, trackerVars, kpiVars>>

InitIdleTracker ==
    /\ mask = StandardMask
    /\ buckets = build_job_tracker
    /\ calls = <<>>

TrackerInit ==
    /\ mask \in Masks
    /\ buckets = JobTracker_new(mask)
    /\ calls = <<>>

AddJob ==
    /\ Len(calls) < MaxCalls
    /\ \E kind \in Kinds, ts \in StampSeqs :
         \E loss \in LossStamps(ts) :
           LET j == Len(calls) + 1
               r == add_job(buckets, j, kind, ts, loss)
           IN /\ ~r.panic
              /\ buckets' = r.buckets
              /\ calls' = Append(calls, [job |-> j, kind |-> kind, timestamps |-> ts,
                                          loss_timestamp |-> loss])
    /\ UNCHANGED <<mask, analysisVars, kpiVars>>

InitIdleKpi ==
    /\ date_range = [from_date |-> None, to_date |-> None]
    /\ abandon_date = 1
    /\ trackers = <<>>
    /\ red_flags = <<>>
    /\ unsettled_jobs = <<>>
    /\ abandoned_jobs = <<>>
    /\ milestoneless_jobs = <<>>
    /\ processed = <<>>
    /\ panicked = FALSE

\* DateRange: each bound absent or a date
DateRanges == [from_date : OptionOf({MaxKpiDate}), to_date : OptionOf({MaxKpiDate - 1})]

KpiInit ==
    /\ date_range \in DateRanges
    /\ abandon_date = MaxKpiDate
    /\ trackers = <<>>
    /\ red_flags = <<>>
    /\ unsettled_jobs = <<>>
    /\ abandoned_jobs = <<>>
    /\ milestoneless_jobs = <<>>
    /\ processed = <<>>
    /\ panicked = FALSE

\* the jobs a batch may hold at position n
\* the calendar of a batch: appointments and contingencies are signed on day 1,
\* contracts and installs on the last day, a job may be lost on any day
KpiDates ==
    [appointment_date : OptionOf({1}),
     contingency_date : OptionOf({1}),
     contract_date : OptionOf({MaxKpiDate}),
     install_date : OptionOf({MaxKpiDate}),
     loss_date : OptDates(MaxKpiDate)]

KpiJobs(n) == {j \in JobSet({n}, Reps, KpiDates) :
                  is_some(j.insurance_company_name) = is_some(j.insurance_claim_number)}

KpiState ==
    [trackers |-> trackers,
     red_flags |-> red_flags,
     unsettled_jobs |-> unsettled_jobs,
     abandoned_jobs |-> abandoned_jobs,
     milestoneless_jobs |-> milestoneless_jobs,
     panicked |-> panicked]

SetKpiState(st) ==
    /\ trackers' = st.trackers
    /\ red_flags' = st.red_flags
    /\ unsettled_jobs' = st.unsettled_jobs
    /\ abandoned_jobs' = st.abandoned_jobs
    /\ milestoneless_jobs' = st.milestoneless_jobs
    /\ panicked' = st.panicked

ProcessJob ==
    /\ ~panicked
    /\ Len(processed) < MaxBatch
    /\ \E j \in KpiJobs(Len(processed) + 1) :
         /\ SetKpiState(process_job(KpiState, date_range, abandon_date, analyze_job(j)))
         /\ processed' = Append(processed, analyze_job(j))
    /\ UNCHANGED <<date_range, abandon_date, analysisVars, trackerVars>>

-----------------------------------------------------------------------------
(* Specifications *)

\* process_jobs over a batch of jobs
Init == InitIdleAnalysis /\ InitIdleTracker /\ KpiInit

Next == ProcessJob

Spec == Init /\ [][Next]_vars

\* AnalyzedJob::try_from on one job
InitAnalysis == AnalysisInit /\ InitIdleTracker /\ InitIdleKpi

NextAnalysis == Analyze

SpecAnalysis == InitAnalysis /\ [][NextAnalysis]_vars

\* a JobTracker filled by add_job
InitTracker == InitIdleAnalysis /\ TrackerInit /\ InitIdleKpi

NextTracker == AddJob

SpecTracker == InitTracker /\ [][NextTracker]_vars

-----------------------------------------------------------------------------
(* Properties of process_jobs (Spec) *)

InSeq(x, s) == \E i \in 1 .. Len(s) : s[i] = x

\* the job is in the achieved list of some bucket of some tracker
InTracker(jid) ==
    \E s \in DOMAIN trackers : \E k \in Kinds, m \in Milestones :
        is_some(trackers[s][k][m]) /\ InSeq(jid, unwrap(trackers[s][k][m]).achieved)

InRedFlags(jid) ==
    \E s \in DOMAIN red_flags : \E i \in 1 .. Len(red_flags[s]) : red_flags[s][i].job = jid

InRange(d) ==
    /\ (is_none(date_range.from_date) \/ d >= unwrap(date_range.from_date))
    /\ (is_none(date_range.to_date) \/ d <= unwrap(date_range.to_date))

\* a settled job whose settlement date lies outside the date range
DroppedOutOfRange(a) ==
    /\ is_some(a.analysis)
    /\ is_some(date_settled(unwrap(a.analysis)))
    /\ ~InRange(unwrap(date_settled(unwrap(a.analysis))))

Accounted(a) ==
    \/ InTracker(a.job)
    \/ InSeq(a.job, unsettled_jobs)
    \/ InSeq(a.job, abandoned_jobs)
    \/ InSeq(a.job, milestoneless_jobs)
    \/ InRedFlags(a.job)
    \/ DroppedOutOfRange(a)

\* C1: process_jobs never reaches a fatal assertion or expect-failure of add_job,
\* whatever jobs the batch holds, and every job it has consumed is counted in a
\* tracker, filed in one of the job lists, dropped as out of range or reported
\* as a red flag.
C1_BatchNeverAborts ==
    /\ ~panicked
    /\ \A i \in 1 .. Len(processed) : Accounted(processed[i])

-----------------------------------------------------------------------------
(* Properties of the tracker (SpecTracker) *)

\* the requests calc_stats answers: every requested cell exists under the mask
CanReach(m, kinds) == \A i \in 1 .. Len(kinds) : mask[kinds[i]][m]

NoRepeat(kinds) == \A i, k \in 1 .. Len(kinds) : i # k => kinds[i] # kinds[k]

Stats(m, kinds) == calc_stats(buckets, m, kinds)

\* the calls that inserted a job of a kind in kinds with a known timestamp at m
InsertedWithTimestamp(m, kinds) ==
    {i \in 1 .. Len(calls) :
        /\ InSeq(calls[i].kind, kinds)
        /\ Len(calls[i].timestamps) > m
        /\ is_some(calls[i].timestamps[m + 1])}

\* the calls that inserted a job of a kind in kinds whose timestamps cover m
InsertedReaching(m, kinds) ==
    {i \in 1 .. Len(calls) :
        /\ InSeq(calls[i].kind, kinds)
        /\ Len(calls[i].timestamps) > m}

\* C2 as claimed: calc_stats(m, kinds).achieved has as many entries as there are
\* jobs inserted with a non-None timestamp at milestone m under a kind in kinds.
C2_CountsTimestampedJobs ==
    \A m \in Milestones, kinds \in KindSeqs :
        (CanReach(m, kinds) /\ NoRepeat(kinds)) =>
            Len(Stats(m, kinds).achieved) = Cardinality(InsertedWithTimestamp(m, kinds))

\* C2 as amended: calc_stats(m, kinds).achieved, for kinds listed once each, has
\* as many entries as there are jobs inserted under a kind in kinds with a
\* timestamps slice that covers milestone m, whether the timestamp at m is Some
\* or None.
C2_CountsJobsReachingMilestone ==
    \A m \in Milestones, kinds \in KindSeqs :
        (CanReach(m, kinds) /\ NoRepeat(kinds)) =>
            Len(Stats(m, kinds).achieved) = Cardinality(InsertedReaching(m, kinds))

\* a job inserted with None at an applicable milestone after LeadAcquired is
\* in the achieved list calc_stats returns for that milestone
C2_Witness ==
    \E i \in 1 .. Len(calls) : \E m \in 1 .. (Len(calls[i].timestamps) - 1) :
        /\ mask[calls[i].kind][m]
        /\ is_none(calls[i].timestamps[m + 1])
        /\ InSeq(calls[i].job, Stats(m, <<calls[i].kind>>).achieved)

AchievedCount(k, m) == Len(unwrap(buckets[k][m]).achieved)

\* the applicable milestones of a kind strictly before m
EarlierApplicable(k, m) == {ms \in 0 .. (m - 1) : mask[k][ms]}

\* the potential of kind k at milestone m
PotentialOf(k, m) ==
    IF EarlierApplicable(k, m) = {}
    THEN AchievedCount(k, m)
    ELSE AchievedCount(k, SetMax(EarlierApplicable(k, m)))

PotentialDenominator(m, kinds) ==
    SumSeq([i \in 1 .. Len(kinds) |-> PotentialOf(kinds[i], m)])

Numerator(m, kinds) ==
    SumSeq([i \in 1 .. Len(kinds) |-> AchievedCount(kinds[i], m)])

\* C3: calc_stats returns conversion_rate = None exactly when the potential
\* denominator, summed over the requested kinds, is zero.
C3_RateNoneIffNoPotential ==
    \A m \in Milestones, kinds \in KindSeqs :
        CanReach(m, kinds) =>
            (is_none(Stats(m, kinds).conversion_rate) <=> PotentialDenominator(m, kinds) = 0)

\* after an add_job call, one request has no potential and gets None while another
\* has potential, no achiever, and gets a rate of zero
C3_Witness ==
    /\ calls # <<>>
    /\ \E m \in Milestones, k \in Kinds :
         /\ mask[k][m]
         /\ PotentialDenominator(m, <<k>>) = 0
         /\ is_none(Stats(m, <<k>>).conversion_rate)
    /\ \E m \in Milestones, k \in Kinds :
         /\ mask[k][m]
         /\ PotentialDenominator(m, <<k>>) > 0
         /\ Numerator(m, <<k>>) = 0
         /\ Stats(m, <<k>>).conversion_rate = Some(<<0, 1>>)

\* C4: the conversion rate is the achieved count of the requested cells over the
\* sum, over the requested kinds, of the achieved count of the nearest applicable
\* milestone before the target (the target's own count when there is none); where
\* no requested kind has an earlier applicable milestone a defined rate is 1.
C4_RateIsAchievedOverNearestEarlier ==
    \A m \in Milestones, kinds \in KindSeqs :
        CanReach(m, kinds) =>
            LET rate == Stats(m, kinds).conversion_rate
                potential == PotentialDenominator(m, kinds)
            IN /\ rate = IF potential = 0
                         THEN None
                         ELSE Some(Ratio(Numerator(m, kinds), potential))
               /\ ((\A i \in 1 .. Len(kinds) : EarlierApplicable(kinds[i], m) = {})
                     /\ is_some(rate))
                    => rate = Some(<<1, 1>>)

\* a kind that skips the milestone before the target converts one job of two, and
\* its rate at its first applicable milestone is 1
C4_Witness ==
    \E k \in Kinds, m \in 2 .. (NumMilestones - 1) :
        /\ mask[k][m] /\ ~mask[k][m - 1]
        /\ Stats(m, <<k>>).conversion_rate = Some(<<1, 2>>)
        /\ \E m0 \in Milestones :
             /\ mask[k][m0]
             /\ EarlierApplicable(k, m0) = {}
             /\ Stats(m0, <<k>>).conversion_rate = Some(<<1, 1>>)

CumAchieveTime(m, kinds) ==
    SumSeq([i \in 1 .. Len(kinds) |-> unwrap(buckets[kinds[i]][m]).cum_achieve_time])

\* C5: average_time_to_achieve is zero when the unioned achieved list is empty,
\* and otherwise the sum of cum_achieve_time over the requested cells divided by
\* the number of achieved jobs.
C5_AverageTimeToAchieve ==
    \A m \in Milestones, kinds \in KindSeqs :
        CanReach(m, kinds) =>
            LET r == Stats(m, kinds) IN
            r.average_time_to_achieve =
                IF r.achieved = <<>>
                THEN 0
                ELSE CumAchieveTime(m, kinds) \div Len(r.achieved)

\* two kinds are requested together, both cells hold a job that took a positive
\* time to get there, and a cell without jobs has an average of zero
C5_Witness ==
    \E m \in Milestones, kinds \in KindSeqs :
        /\ Len(kinds) = 2 /\ NoRepeat(kinds) /\ CanReach(m, kinds)
        /\ \A i \in 1 .. 2 : AchievedCount(kinds[i], m) > 0
        /\ Stats(m, kinds).average_time_to_achieve > 0
        /\ \E k \in Kinds : /\ mask[k][m]
                            /\ AchievedCount(k, m) = 0
                            /\ Stats(m, <<k>>).average_time_to_achieve = 0

\* the jobs of kind k at AppointmentMade that are absent from the final milestone
LostOfKind(k) ==
    SelectSeq(unwrap(buckets[k][AppointmentMade]).achieved,
              LAMBDA j : ~InSeq(j, unwrap(buckets[k][NumMilestones - 1]).achieved))

RECURSIVE LostUpTo(_)
LostUpTo(k) == IF k < 0 THEN <<>> ELSE LostUpTo(k - 1) \o LostOfKind(k)

\* cum_loss_time of the cell, zero when the cell is masked out
LossTimeAt(k, m) == IF mask[k][m] THEN unwrap(buckets[k][m]).cum_loss_time ELSE 0

\* cum_loss_time over the cells of index 2 or greater of every kind
LossTimeFromThird ==
    SumSeq([k \in 1 .. NumKinds |->
        SumSeq([m \in 1 .. (NumMilestones - 2) |-> LossTimeAt(k - 1, m + 1)])])

\* C6: calc_stats_of_loss returns, kind by kind, the jobs present at
\* AppointmentMade and absent from the final milestone, and as average loss time
\* the cum_loss_time of the applicable buckets of index 2 or greater divided by
\* the number of lost jobs (zero when there is none).
C6_LossStats ==
    LET r == calc_stats_of_loss(buckets)
        lost == LostUpTo(NumKinds - 1)
    IN /\ r.tag = "LossStats"
       /\ r.lost = lost
       /\ r.average_loss_time =
            IF lost = <<>> THEN 0 ELSE LossTimeFromThird \div Len(lost)

\* a job was lost after AppointmentMade with a positive loss time while another
\* bucket at AppointmentMade holds a loss time that is left out of the average
C6_Witness ==
    /\ Len(calc_stats_of_loss(buckets).lost) = 1
    /\ calc_stats_of_loss(buckets).average_loss_time > 0
    /\ \E k \in Kinds : LossTimeAt(k, AppointmentMade) > 0

-----------------------------------------------------------------------------
(* Properties of the analysis (SpecAnalysis) *)

Analyzed == result.tag = "Ok"

Failed == result.tag = "Err"

\* [None, appointment, contingency, contract, install]
AllDates(j) == [i \in 1 .. NumMilestones |-> MilestoneDatesIndex(j.milestone_dates, i - 1)]

\* the milestones of the job that carry a date
Dated(j) == {m \in Milestones : is_some(MilestoneDatesIndex(j.milestone_dates, m))}

\* C7: the timestamps of a successfully analyzed job are non-decreasing wherever
\* both are Some, and its loss timestamp, when present, is not earlier than any
\* of them.
C7_TimestampsNonDecreasing ==
    Analyzed =>
        /\ \A i, k \in 1 .. Len(result.value.timestamps) :
             (/\ i < k
              /\ is_some(result.value.timestamps[i])
              /\ is_some(result.value.timestamps[k]))
                => unwrap(result.value.timestamps[i]) <= unwrap(result.value.timestamps[k])
        /\ \A i \in 1 .. Len(result.value.timestamps) :
             (is_some(result.value.loss_timestamp) /\ is_some(result.value.timestamps[i]))
                => unwrap(result.value.timestamps[i]) <= unwrap(result.value.loss_timestamp)

\* a job analyzed with dates on both sides of an absent contingency date, two of
\* them equal, and a loss timestamp
C7_Witness ==
    /\ Analyzed
    /\ Len(result.value.timestamps) = 4
    /\ is_none(result.value.timestamps[3])
    /\ result.value.timestamps[2] = Some(2)
    /\ result.value.timestamps[4] = Some(2)
    /\ result.value.loss_timestamp = Some(3)

\* C8: on success timestamps is the prefix of [None, appointment, contingency,
\* contract, install] up to and including the last milestone that has a date:
\* one to five entries, None in slot 0, [None] for a job without dates, an absent
\* contingency date inside the prefix as None; loss_timestamp is the loss date.
C8_TimestampsArePrefix ==
    Analyzed =>
        /\ Len(result.value.timestamps) \in 1 .. NumMilestones
        /\ Len(result.value.timestamps) =
             IF Dated(job) = {} THEN 1 ELSE SetMax(Dated(job)) + 1
        /\ \A i \in 1 .. Len(result.value.timestamps) :
             result.value.timestamps[i] = AllDates(job)[i]
        /\ result.value.timestamps[1] = None
        /\ result.value.loss_timestamp = job.milestone_dates.loss_date
        /\ result.value.job = job

\* the retail job with appointment, contract and install dates
C8_Witness ==
    /\ Analyzed
    /\ result.value.kind = Retail
    /\ result.value.timestamps = <<None, Some(1), None, Some(3), Some(4)>>
    /\ result.value.loss_timestamp = None

\* an insurance job with a claim number whose contract date follows its
\* appointment date without a contingency date
InsuranceWithoutContingencyDates(j) ==
    /\ j.insurance_checkbox
    /\ is_some(j.insurance_claim_number)
    /\ is_none(j.milestone_dates.contingency_date)
    /\ is_some(j.milestone_dates.appointment_date)
    /\ is_some(j.milestone_dates.contract_date)
    /\ unwrap(j.milestone_dates.appointment_date) <= unwrap(j.milestone_dates.contract_date)

\* the install date and the loss date do not precede the dates before them
LaterDatesInOrder(j) ==
    /\ is_some(j.milestone_dates.install_date) =>
         unwrap(j.milestone_dates.contract_date) <= unwrap(j.milestone_dates.install_date)
    /\ is_some(j.milestone_dates.loss_date) =>
         \A m \in Dated(j) :
            unwrap(MilestoneDatesIndex(j.milestone_dates, m)) <= unwrap(j.milestone_dates.loss_date)

\* C9: an insurance job with a claim number, no contingency date and a contract
\* date reached in order is analyzed with kind InsuranceWithoutContingency; the
\* absent contingency date does not stop the walk: the contract and install dates
\* are part of the timestamps, and only an install or loss date that is out of
\* order can still make the analysis fail.
C9_InsuranceWithoutContingency ==
    (result # Pending /\ InsuranceWithoutContingencyDates(job)) =>
        /\ LaterDatesInOrder(job) => Analyzed
        /\ Analyzed =>
             /\ result.value.kind = InsuranceWithoutContingency
             /\ result.value.timestamps[4] = job.milestone_dates.contract_date
             /\ is_some(job.milestone_dates.install_date) =>
                  /\ Len(result.value.timestamps) = NumMilestones
                  /\ result.value.timestamps[5] = job.milestone_dates.install_date
        /\ Failed => result.error \in {OutOfOrderDates(Some(Installed)), OutOfOrderDates(None)}

\* the job with appointment, contract and install dates and a claim number
C9_Witness ==
    /\ Analyzed
    /\ job.insurance_checkbox
    /\ is_some(job.insurance_claim_number)
    /\ result.value.kind = InsuranceWithoutContingency
    /\ result.value.timestamps = <<None, Some(1), None, Some(3), Some(4)>>

\* an insurance job without a claim number whose appointment and contract dates
\* are present and whose contingency date is absent
InsuranceWithoutClaim(j) ==
    /\ j.insurance_checkbox
    /\ is_none(j.insurance_claim_number)
    /\ is_none(j.milestone_dates.contingency_date)
    /\ is_some(j.milestone_dates.appointment_date)
    /\ is_some(j.milestone_dates.contract_date)

\* C10 as claimed: such a job is not reclassified and its analysis fails with
\* ContingencyWithoutInsurance.
C10_FailsWithoutClaim ==
    (result # Pending /\ InsuranceWithoutClaim(job)) =>
        result = Err(job, ContingencyWithoutInsurance)

\* C10 as amended: such a job is not reclassified and never fails with
\* ContingencyWithoutInsurance: when its dates are in order it is analyzed with
\* kind InsuranceWithContingency, and otherwise it fails with OutOfOrderDates.
C10_KeepsKindWithoutClaim ==
    (result # Pending /\ InsuranceWithoutClaim(job)) =>
        /\ Analyzed => result.value.kind = InsuranceWithContingency
        /\ Failed => result.error.tag = "OutOfOrderDates"
        /\ (/\ unwrap(job.milestone_dates.appointment_date)
                 <= unwrap(job.milestone_dates.contract_date)
            /\ LaterDatesInOrder(job)) => Analyzed

\* the job with appointment, contract and install dates and no claim number
C10_Witness ==
    /\ Analyzed
    /\ InsuranceWithoutClaim(job)
    /\ result.value.kind = InsuranceWithContingency
    /\ result.value.timestamps = <<None, Some(1), None, Some(3), Some(4)>>

\* the job passes the consistency check of its insurance fields
ConsistentInsuranceInfo(j) ==
    \/ j.insurance_checkbox
    \/ (is_none(j.insurance_company_name) /\ is_none(j.insurance_claim_number))

\* a job without the insurance flag, an insurance company or a claim number
NonInsurance(j) ==
    /\ ~j.insurance_checkbox
    /\ is_none(j.insurance_company_name)
    /\ is_none(j.insurance_claim_number)

\* C11: a non-insurance job with a contingency date is never analyzed
\* successfully, and fails with ContingencyWithoutInsurance when its appointment
\* date is present too; whatever the insurance flag, a job that passes the
\* consistency check of its insurance fields, has no claim number and has both
\* an appointment and a contingency date fails with ContingencyWithoutInsurance.
C11_ContingencyWithoutInsurance ==
    result # Pending =>
        /\ (NonInsurance(job) /\ is_some(job.milestone_dates.contingency_date)) =>
             /\ Failed
             /\ is_some(job.milestone_dates.appointment_date) =>
                  result = Err(job, ContingencyWithoutInsurance)
        /\ (/\ ConsistentInsuranceInfo(job)
            /\ is_none(job.insurance_claim_number)
            /\ is_some(job.milestone_dates.appointment_date)
            /\ is_some(job.milestone_dates.contingency_date)) =>
             (Failed /\ result.error.tag = "ContingencyWithoutInsurance")

\* an insurance-flagged job without a claim number whose contingency date
\* follows its appointment date
C11_Witness ==
    /\ Failed
    /\ result.error = ContingencyWithoutInsurance
    /\ job.insurance_checkbox
    /\ job.milestone_dates.appointment_date = Some(1)
    /\ job.milestone_dates.contingency_date = Some(2)

\* C12: once the appointment, contract or install date is found absent, a later
\* date makes the analysis fail with SkippedDates of the last milestone reached
\* before the gap (LeadAcquired when the appointment date is absent); SkippedDates
\* is reported in no other case, so not for an absent contingency date alone.
C12_SkippedDates ==
    (result # Pending /\ ConsistentInsuranceInfo(job)) =>
        /\ (is_none(job.milestone_dates.appointment_date) /\ Dated(job) # {}) =>
             result = Err(job, SkippedDates(LeadAcquired))
        /\ (/\ is_some(job.milestone_dates.appointment_date)
            /\ is_none(job.milestone_dates.contract_date)
            /\ is_some(job.milestone_dates.install_date)) =>
             IF is_none(job.milestone_dates.contingency_date)
             THEN result = Err(job, SkippedDates(AppointmentMade))
             ELSE (/\ is_some(job.insurance_claim_number)
                   /\ unwrap(job.milestone_dates.appointment_date)
                        <= unwrap(job.milestone_dates.contingency_date)) =>
                     result = Err(job, SkippedDates(ContingencySigned))
        /\ (Failed /\ result.error.tag = "SkippedDates") =>
             \/ (is_none(job.milestone_dates.appointment_date) /\ Dated(job) # {})
             \/ (/\ is_none(job.milestone_dates.contract_date)
                 /\ is_some(job.milestone_dates.install_date))

\* an install date after a contingency date, with the contract date missing
C12_Witness ==
    /\ Failed
    /\ result.error = SkippedDates(ContingencySigned)
    /\ job.milestone_dates.contingency_date = Some(2)
    /\ job.milestone_dates.install_date = Some(3)

\* the dated milestones before m
PrevDated(j, m) == {n \in Dated(j) : n < m}

\* the dates of the dated milestones in ms never decrease
InOrder(j, ms) ==
    \A a, b \in ms :
        a < b => unwrap(MilestoneDatesIndex(j.milestone_dates, a))
                   <= unwrap(MilestoneDatesIndex(j.milestone_dates, b))

\* the walk over the milestones arrives at the order check of milestone m: m has
\* a date, no required date before it is absent, a contingency date up to m comes
\* with a claim number, and the dates before m are in order
WalkReaches(j, m) ==
    /\ ConsistentInsuranceInfo(j)
    /\ m \in Dated(j)
    /\ m > AppointmentMade => AppointmentMade \in Dated(j)
    /\ m > ContractSigned => ContractSigned \in Dated(j)
    /\ (ContingencySigned \in Dated(j) /\ ContingencySigned <= m) =>
         is_some(j.insurance_claim_number)
    /\ InOrder(j, PrevDated(j, m))

\* the date of m is strictly earlier than the most recent date before it
PrecedesPrevious(j, m) ==
    /\ PrevDated(j, m) # {}
    /\ unwrap(MilestoneDatesIndex(j.milestone_dates, m))
         < unwrap(MilestoneDatesIndex(j.milestone_dates, SetMax(PrevDated(j, m))))

\* C13: when the walk arrives at a milestone whose date is strictly earlier than
\* the most recent earlier date (across an absent contingency date), the analysis
\* fails with OutOfOrderDates(Some(that milestone)); the error is reported in no
\* other case, so a date equal to the previous one is accepted.
C13_OutOfOrderDates ==
    result # Pending =>
        /\ \A m \in Milestones :
             (WalkReaches(job, m) /\ PrecedesPrevious(job, m)) =>
                 result = Err(job, OutOfOrderDates(Some(m)))
        /\ (Failed /\ result.error.tag = "OutOfOrderDates" /\ is_some(result.error.arg)) =>
             /\ WalkReaches(job, unwrap(result.error.arg))
             /\ PrecedesPrevious(job, unwrap(result.error.arg))
        /\ (/\ \A m \in Dated(job) : WalkReaches(job, m) /\ ~PrecedesPrevious(job, m)
            /\ is_none(job.milestone_dates.loss_date)
            /\ AppointmentMade \in Dated(job)
            /\ Installed \in Dated(job) => ContractSigned \in Dated(job)) => Analyzed

\* a contract date earlier than the appointment date, no contingency date
C13_Witness ==
    /\ Failed
    /\ result.error = OutOfOrderDates(Some(ContractSigned))
    /\ job.milestone_dates.appointment_date = Some(2)
    /\ is_none(job.milestone_dates.contingency_date)
    /\ job.milestone_dates.contract_date = Some(1)

\* a job analyzed with its contract signed on the day of its appointment
C13_WitnessEqual ==
    /\ Analyzed
    /\ job.milestone_dates.appointment_date = Some(2)
    /\ is_none(job.milestone_dates.contingency_date)
    /\ job.milestone_dates.contract_date = Some(2)

\* every check of the walk over the milestones passes
MilestoneChecksPass(j) ==
    /\ ConsistentInsuranceInfo(j)
    /\ Dated(j) # {} => AppointmentMade \in Dated(j)
    /\ Installed \in Dated(j) => ContractSigned \in Dated(j)
    /\ ContingencySigned \in Dated(j) => is_some(j.insurance_claim_number)
    /\ InOrder(j, Dated(j))

\* C14: when every milestone check passed and the job has a loss date, the
\* analysis fails, with OutOfOrderDates(None), exactly when the loss date is
\* strictly earlier than the last milestone date; otherwise (no milestone dates,
\* or a loss date not earlier than the last one) the job is analyzed with that
\* loss timestamp.  OutOfOrderDates(None) is reported in no other case.
C14_LossDateOutOfOrder ==
    result # Pending =>
        /\ (MilestoneChecksPass(job) /\ is_some(job.milestone_dates.loss_date)) =>
             IF /\ Dated(job) # {}
                /\ unwrap(job.milestone_dates.loss_date)
                     < unwrap(MilestoneDatesIndex(job.milestone_dates, SetMax(Dated(job))))
             THEN result = Err(job, OutOfOrderDates(None))
             ELSE Analyzed /\ result.value.loss_timestamp = job.milestone_dates.loss_date
        /\ (Failed /\ result.error = OutOfOrderDates(None)) =>
             (MilestoneChecksPass(job) /\ is_some(job.milestone_dates.loss_date))

\* a job lost before the day of its appointment
C14_Witness ==
    /\ Failed
    /\ result.error = OutOfOrderDates(None)
    /\ job.milestone_dates.appointment_date = Some(2)
    /\ job.milestone_dates.loss_date = Some(1)

\* a job lost on the day of its last milestone
C14_WitnessEqual ==
    /\ Analyzed
    /\ job.milestone_dates.appointment_date = Some(2)
    /\ result.value.timestamps = <<None, Some(2)>>
    /\ result.value.loss_timestamp = Some(2)

\* C15: a job whose insurance flag is unset but which carries an insurance
\* company name or a claim number fails with InconsistentInsuranceInfo whatever
\* its dates are, and the error value carries the job unchanged.
C15_InconsistentInsuranceInfo ==
    (/\ result # Pending
     /\ ~job.insurance_checkbox
     /\ (is_some(job.insurance_company_name) \/ is_some(job.insurance_claim_number))) =>
        /\ Failed
        /\ result.error = InconsistentInsuranceInfo
        /\ result.job = job

\* a job with a company name only whose dates would otherwise be reported as
\* a contingency without insurance, out of order and skipped
C15_Witness ==
    /\ Failed
    /\ result.error = InconsistentInsuranceInfo
    /\ ~job.insurance_checkbox
    /\ is_some(job.insurance_company_name)
    /\ is_none(job.insurance_claim_number)
    /\ job.milestone_dates.appointment_date = Some(2)
    /\ job.milestone_dates.contingency_date = Some(1)
    /\ is_none(job.milestone_dates.contract_date)
    /\ job.milestone_dates.install_date = Some(1)

-----------------------------------------------------------------------------
(* Routing of the jobs of a batch (Spec) *)

Subjects == {Global, UnknownSalesRep} \cup {SalesRep(name) : name \in Reps}

\* the subject of the job itself: its sales rep, or UnknownSalesRep
OwnSubject(a) ==
    IF a.sales_rep = None THEN UnknownSalesRep
    ELSE [tag |-> "SalesRep", name |-> a.sales_rep]

AnalyzedOk(a) == is_some(a.analysis)

\* has a loss timestamp or reached every milestone
Settled(a) ==
    /\ AnalyzedOk(a)
    /\ \/ is_some(unwrap(a.analysis).loss_timestamp)
       \/ Len(unwrap(a.analysis).timestamps) = NumMilestones

SettlementDate(a) == unwrap(date_settled(unwrap(a.analysis)))

SettledInRange(a) == Settled(a) /\ InRange(SettlementDate(a))

\* the job is in the achieved list of some bucket of the tracker of subject s
InTrackerOf(s, jid) ==
    /\ s \in DOMAIN trackers
    /\ \E k \in Kinds, m \in Milestones :
         is_some(trackers[s][k][m]) /\ InSeq(jid, unwrap(trackers[s][k][m]).achieved)

InLists(jid) ==
    \/ InSeq(jid, unsettled_jobs)
    \/ InSeq(jid, abandoned_jobs)
    \/ InSeq(jid, milestoneless_jobs)

\* the job belongs in the tracker of subject s
CountedUnder(a, s) == SettledInRange(a) /\ (s = Global \/ s = OwnSubject(a))

\* the tracker of subject s after one add_job, in batch order, for each of the
\* first n jobs that belongs in it
RECURSIVE Replayed(_, _)
Replayed(s, n) ==
    IF n = 0 THEN build_job_tracker
    ELSE IF CountedUnder(processed[n], s)
         THEN add_job(Replayed(s, n - 1), processed[n].job,
                      unwrap(processed[n].analysis).kind,
                      unwrap(processed[n].analysis).timestamps,
                      unwrap(processed[n].analysis).loss_timestamp).buckets
         ELSE Replayed(s, n - 1)

\* the achieved count or a cumulative time of a bucket
Measure(b, what) ==
    CASE what = "achieved" -> Len(b.achieved)
      [] what = "cum_achieve_time" -> b.cum_achieve_time
      [] what = "cum_loss_time" -> b.cum_loss_time

\* the sum of a measure over the cells (k, m) of the trackers of the subjects in ss
RECURSIVE SumOverSubjects(_, _, _, _)
SumOverSubjects(ss, k, m, what) ==
    IF ss = {} THEN 0
    ELSE LET s == CHOOSE x \in ss : TRUE
         IN Measure(unwrap(trackers[s][k][m]), what)
              + SumOverSubjects(ss \ {s}, k, m, what)

\* C16: every settled job whose settlement date lies in the date range is
\* inserted exactly once, with its kind, timestamps and loss timestamp, into the
\* Global tracker and into the tracker of its own subject, and nothing else is
\* inserted anywhere; hence each bucket of the Global tracker holds the sums of
\* the achieved counts and cumulative times of the same bucket of the other
\* trackers.
C16_GlobalAndOwnTracker ==
    /\ \A s \in Subjects :
         /\ s \in DOMAIN trackers <=>
              \E i \in 1 .. Len(processed) : CountedUnder(processed[i], s)
         /\ s \in DOMAIN trackers => trackers[s] = Replayed(s, Len(processed))
    /\ DOMAIN trackers \subseteq Subjects
    /\ \A i \in 1 .. Len(processed) :
         SettledInRange(processed[i]) =>
             /\ InTrackerOf(Global, processed[i].job)
             /\ InTrackerOf(OwnSubject(processed[i]), processed[i].job)
    /\ Global \in DOMAIN trackers =>
         \A k \in Kinds, m \in Milestones :
             is_some(trackers[Global][k][m]) =>
                 \A what \in {"achieved", "cum_achieve_time", "cum_loss_time"} :
                     Measure(unwrap(trackers[Global][k][m]), what)
                       = SumOverSubjects(DOMAIN trackers \ {Global}, k, m, what)

\* C16 wherever add_job has not failed
C16_UnlessAborted == ~panicked => C16_GlobalAndOwnTracker

\* C17: a settled job is in the Global tracker and in the tracker of its own
\* subject when from_date <= settlement date <= to_date, each comparison skipped
\* when its bound is absent; a settled job outside the range is in no tracker and
\* in none of the unsettled, abandoned and milestoneless lists.
C17_InclusiveDateRange ==
    \A i \in 1 .. Len(processed) :
        Settled(processed[i]) =>
            IF /\ (date_range.from_date # None =>
                     unwrap(date_range.from_date) <= SettlementDate(processed[i]))
               /\ (date_range.to_date # None =>
                     SettlementDate(processed[i]) <= unwrap(date_range.to_date))
            THEN /\ InTrackerOf(Global, processed[i].job)
                 /\ InTrackerOf(OwnSubject(processed[i]), processed[i].job)
                 /\ ~InLists(processed[i].job)
            ELSE /\ ~InTracker(processed[i].job)
                 /\ ~InLists(processed[i].job)

\* C17 wherever add_job has not failed
C17_UnlessAborted == ~panicked => C17_InclusiveDateRange

\* how many times x occurs in s
Occurrences(x, s) == Cardinality({i \in 1 .. Len(s) : s[i] = x})

\* the known milestone timestamps of an analyzed job
KnownTimestamps(a) ==
    {unwrap(unwrap(a.analysis).timestamps[i]) :
        i \in {n \in 1 .. Len(unwrap(a.analysis).timestamps) :
                  is_some(unwrap(a.analysis).timestamps[n])}}

\* C18: an analyzed job that is not settled and has a milestone timestamp is in
\* exactly one of the abandoned and unsettled lists, once: abandoned when its
\* most recent timestamp is strictly earlier than the abandon cutoff, unsettled
\* otherwise; it is in no tracker and not in the milestoneless list.
C18_AbandonedOrUnsettled ==
    \A i \in 1 .. Len(processed) :
        (/\ AnalyzedOk(processed[i])
         /\ ~Settled(processed[i])
         /\ KnownTimestamps(processed[i]) # {}) =>
            /\ ~InTracker(processed[i].job)
            /\ ~InSeq(processed[i].job, milestoneless_jobs)
            /\ IF SetMax(KnownTimestamps(processed[i])) < abandon_date
               THEN /\ Occurrences(processed[i].job, abandoned_jobs) = 1
                    /\ ~InSeq(processed[i].job, unsettled_jobs)
               ELSE /\ Occurrences(processed[i].job, unsettled_jobs) = 1
                    /\ ~InSeq(processed[i].job, abandoned_jobs)

\* one job last updated before the cutoff and one last updated on the cutoff day
C18_Witness ==
    /\ Len(processed) = 2
    /\ ~Settled(processed[1]) /\ AnalyzedOk(processed[1])
    /\ ~Settled(processed[2]) /\ AnalyzedOk(processed[2])
    /\ KnownTimestamps(processed[1]) = {1}
    /\ abandon_date \in KnownTimestamps(processed[2])
    /\ abandoned_jobs = <<processed[1].job>>
    /\ unsettled_jobs = <<processed[2].job>>

\* C19 as claimed: every analyzed job without any milestone timestamp is in the
\* milestoneless list.
C19_MilestonelessFiled ==
    \A i \in 1 .. Len(processed) :
        (AnalyzedOk(processed[i]) /\ KnownTimestamps(processed[i]) = {}) =>
            InSeq(processed[i].job, milestoneless_jobs)

\* C19 as amended: every analyzed job without any milestone timestamp and
\* without a loss timestamp is in the milestoneless list, once, and nowhere else;
\* the list holds no other job.
C19_UnsettledMilestonelessFiled ==
    /\ \A i \in 1 .. Len(processed) :
         (/\ AnalyzedOk(processed[i])
          /\ KnownTimestamps(processed[i]) = {}
          /\ is_none(unwrap(processed[i].analysis).loss_timestamp)) =>
             /\ Occurrences(processed[i].job, milestoneless_jobs) = 1
             /\ ~InSeq(processed[i].job, unsettled_jobs)
             /\ ~InSeq(processed[i].job, abandoned_jobs)
             /\ ~InTracker(processed[i].job)
    /\ \A n \in 1 .. Len(milestoneless_jobs) :
         \E i \in 1 .. Len(processed) :
             /\ processed[i].job = milestoneless_jobs[n]
             /\ AnalyzedOk(processed[i])
             /\ KnownTimestamps(processed[i]) = {}
             /\ is_none(unwrap(processed[i].analysis).loss_timestamp)

\* a job without any date filed as milestoneless, after a job lost without any
\* milestone date that went to the trackers
C19_Witness ==
    /\ Len(processed) = 2
    /\ AnalyzedOk(processed[1])
    /\ KnownTimestamps(processed[1]) = {}
    /\ is_some(unwrap(processed[1].analysis).loss_timestamp)
    /\ InTrackerOf(Global, processed[1].job)
    /\ AnalyzedOk(processed[2])
    /\ KnownTimestamps(processed[2]) = {}
    /\ milestoneless_jobs = <<processed[2].job>>

\* the red flags recorded under subject s for the job
FlagsOf(s, jid) ==
    IF s \in DOMAIN red_flags
    THEN {n \in 1 .. Len(red_flags[s]) : red_flags[s][n].job = jid}
    ELSE {}

\* C20: a job whose analysis failed is recorded once, with its error, in the red
\* flags of its own subject and of no other subject, Global has no red flags, and
\* the job is in no tracker and in none of the job lists; a job in a tracker has
\* no red flag.
C20_RedFlags ==
    /\ Global \notin DOMAIN red_flags
    /\ \A i \in 1 .. Len(processed) :
         /\ ~AnalyzedOk(processed[i]) =>
              /\ Cardinality(FlagsOf(OwnSubject(processed[i]), processed[i].job)) = 1
              /\ \A n \in FlagsOf(OwnSubject(processed[i]), processed[i].job) :
                   red_flags[OwnSubject(processed[i])][n].error = processed[i].errors[1]
              /\ \A s \in Subjects \ {OwnSubject(processed[i])} :
                   FlagsOf(s, processed[i].job) = {}
              /\ ~InTracker(processed[i].job)
              /\ ~InLists(processed[i].job)
         /\ InTracker(processed[i].job) => ~InRedFlags(processed[i].job)
         /\ AnalyzedOk(processed[i]) => ~InRedFlags(processed[i].job)

\* a batch with one job of sales rep A red-flagged and one job counted
C20_Witness ==
    /\ Len(processed) = 2
    /\ ~AnalyzedOk(processed[1])
    /\ processed[1].sales_rep = Some("A")
    /\ processed[1].errors = <<SkippedDates(LeadAcquired)>>
    /\ red_flags = (SalesRep("A") :> <<[job |-> processed[1].job,
                                        error |-> SkippedDates(LeadAcquired)]>>)
    /\ InTrackerOf(Global, processed[2].job)
    /\ InTrackerOf(UnknownSalesRep, processed[2].job)
    /\ ~panicked

-----------------------------------------------------------------------------
(* Properties of calculate_kpi (Spec) and of calculate_job_tracker_stats *)
(* (SpecTracker)                                                         *)

\* the jobs of any kind at AppointmentMade in a tracker
AppointmentCount(bk) ==
    SumSeq([k \in 1 .. NumKinds |-> Len(unwrap(bk[k - 1][AppointmentMade]).achieved)])

\* C21: stats_by_rep holds a row for a subject exactly when the subject has a
\* tracker with a job of some kind at AppointmentMade; a tracker that only holds
\* jobs that never reached AppointmentMade gives no row, for Global too.
C21_RowsOnlyWithAppointments ==
    /\ DOMAIN stats_by_rep(trackers) =
         {s \in DOMAIN trackers : AppointmentCount(trackers[s]) > 0}
    /\ \A s \in DOMAIN stats_by_rep(trackers) :
         /\ stats_by_rep(trackers)[s] = calculate_job_tracker_stats(trackers[s])
         /\ stats_by_rep(trackers)[s].appt_count = AppointmentCount(trackers[s])

\* sales rep A has a row, and so has Global, while the tracker of the jobs
\* without a sales rep only holds a job that was lost before any appointment
C21_Witness ==
    /\ ~panicked
    /\ DOMAIN trackers = {Global, SalesRep("A"), UnknownSalesRep}
    /\ DOMAIN stats_by_rep(trackers) = {Global, SalesRep("A")}
    /\ unwrap(trackers[UnknownSalesRep][Retail][LeadAcquired]).achieved # <<>>

\* the Global tracker only holds jobs lost before any appointment: no row at all
C21_WitnessGlobal ==
    /\ ~panicked
    /\ Global \in DOMAIN trackers
    /\ DOMAIN stats_by_rep(trackers) = {}

\* the jobs of both insurance kinds at AppointmentMade
InsuranceAppointments ==
    AchievedCount(InsuranceWithContingency, AppointmentMade)
      + AchievedCount(InsuranceWithoutContingency, AppointmentMade)

C22_WitnessRetail ==
    /\ mask = StandardMask
    /\ AchievedCount(Retail, AppointmentMade) > 0
    /\ is_none(calculate_job_tracker_stats(buckets).appt_continge_conv.conversion_rate)
    /\ is_some(calculate_job_tracker_stats(buckets).loss_conv.conversion_rate)

\* C23: calc_stats(milestone, kinds) panics exactly when some requested kind has
\* no bucket at the milestone under the mask, and returns a result for every
\* request whose cells all exist.
C23_PanicsOnMaskedCell ==
    \A m \in Milestones, kinds \in KindSeqs :
        IF CanReach(m, kinds)
        THEN Stats(m, kinds).tag = "CalcStatsResult"
        ELSE Stats(m, kinds) = Panicked

\* on the standard mask, after a job signed a contingency, ContingencySigned can
\* be requested for InsuranceWithContingency but not for the other two kinds,
\* alone or next to it
C23_Witness ==
    /\ mask = StandardMask
    /\ Stats(ContingencySigned, <<InsuranceWithContingency>>).tag = "CalcStatsResult"
    /\ Stats(ContingencySigned, <<InsuranceWithContingency>>).achieved # <<>>
    /\ Stats(ContingencySigned, <<Retail>>) = Panicked
    /\ Stats(ContingencySigned, <<InsuranceWithoutContingency>>) = Panicked
    /\ Stats(ContingencySigned, <<InsuranceWithContingency, Retail>>) = Panicked

-----------------------------------------------------------------------------
(* The effect of one add_job call (SpecTracker) *)

\* the call an AddJob step has just made
NewCall == calls'[Len(calls')]

\* the last known timestamp among the first n entries of ts
LatestKnown(ts, n) ==
    LET known == {i \in 1 .. n : is_some(ts[i])} IN
    IF known = {} THEN None ELSE ts[SetMax(known)]

\* the time between t and the known timestamp before it, zero without one
Elapsed(t, before) == IF is_some(before) THEN unwrap(t) - unwrap(before) ELSE 0

\* the applicable milestones of kind k after milestone m
LaterApplicable(k, m) == {ms \in (m + 1) .. (NumMilestones - 1) : mask[k][ms]}

\* the cum_loss_time one call adds to the cell (k, m)
LossCharge(c, k, m) ==
    IF /\ is_some(c.loss_timestamp)
       /\ k = c.kind
       /\ LaterApplicable(k, Len(c.timestamps) - 1) # {}
       /\ m = SetMin(LaterApplicable(k, Len(c.timestamps) - 1))
    THEN Elapsed(c.loss_timestamp, LatestKnown(c.timestamps, Len(c.timestamps)))
    ELSE 0

\* C25: an add_job call with a loss timestamp adds the time from the job's latest
\* known timestamp to the loss (zero without a known timestamp) to the
\* cum_loss_time of the next applicable bucket after the last reached milestone
\* of the job's kind, and changes no other cum_loss_time; a call without a loss
\* timestamp changes none.
C25_LossTimeCharged ==
    [][calls' # calls =>
          /\ is_some(NewCall.loss_timestamp) =>
               LaterApplicable(NewCall.kind, Len(NewCall.timestamps) - 1) # {}
          /\ \A k \in Kinds, m \in Milestones :
               mask[k][m] =>
                   unwrap(buckets'[k][m]).cum_loss_time
                     = unwrap(buckets[k][m]).cum_loss_time + LossCharge(NewCall, k, m)]_vars

\* a Retail job lost one day after its appointment: the day is charged to
\* ContractSigned, across the masked-out ContingencySigned, and nowhere else
C25_Witness ==
    /\ mask = StandardMask
    /\ calls = <<[job |-> 1, kind |-> Retail, timestamps |-> <<None, Some(1)>>,
                  loss_timestamp |-> Some(2)]>>
    /\ unwrap(buckets[Retail][ContractSigned]).cum_loss_time = 1
    /\ unwrap(buckets[Retail][Installed]).cum_loss_time = 0

\* the cum_achieve_time one call adds to the cell (k, m)
AchieveCharge(c, k, m) ==
    IF k = c.kind /\ m < Len(c.timestamps) /\ is_some(c.timestamps[m + 1])
    THEN Elapsed(c.timestamps[m + 1], LatestKnown(c.timestamps, m))
    ELSE 0

\* C26: an add_job call appends the job to the achieved list of every applicable
\* bucket of its kind that the timestamps slice covers, whether the timestamp is
\* Some or None, and to no other list; for each Some timestamp it adds the time
\* since the job's previous Some timestamp (zero for the first) to that bucket's
\* cum_achieve_time, and it leaves every other cum_achieve_time unchanged.
C26_AchievedAndAchieveTime ==
    [][calls' # calls =>
          \A k \in Kinds, m \in Milestones :
              mask[k][m] =>
                  /\ unwrap(buckets'[k][m]).achieved =
                       IF k = NewCall.kind /\ m < Len(NewCall.timestamps)
                       THEN Append(unwrap(buckets[k][m]).achieved, NewCall.job)
                       ELSE unwrap(buckets[k][m]).achieved
                  /\ unwrap(buckets'[k][m]).cum_achieve_time
                       = unwrap(buckets[k][m]).cum_achieve_time
                           + AchieveCharge(NewCall, k, m)]_vars

\* a job with an appointment on day 1, no contingency date and a contract on day
\* 2 under a kind with a ContingencySigned bucket: the job is in that bucket,
\* which gets no time, and the day is charged to ContractSigned
C26_Witness ==
    /\ calls = <<[job |-> 1, kind |-> InsuranceWithContingency,
                  timestamps |-> <<None, Some(1), None, Some(2)>>,
                  loss_timestamp |-> Some(2)]>>
    /\ unwrap(buckets[InsuranceWithContingency][ContingencySigned]).achieved = <<1>>
    /\ unwrap(buckets[InsuranceWithContingency][ContingencySigned]).cum_achieve_time = 0
    /\ unwrap(buckets[InsuranceWithContingency][ContractSigned]).cum_achieve_time = 1

-----------------------------------------------------------------------------
(* The analyzer's output as add_job's input (SpecAnalysis) *)

\* the loop of add_job over the analyzed job's timestamps, on a fresh tracker
AddJobLoopOnFresh(a) ==
    add_job_loop([buckets |-> build_job_tracker, latest_timestamp |-> None,
                  panic |-> FALSE],
                 a.job.jnid, a.kind, a.timestamps, 1)

\* C27: the timestamps of a successfully analyzed job are None wherever the
\* standard mask has no bucket for the job's kind: a job classified Retail or
\* InsuranceWithoutContingency has None at the ContingencySigned slot, so the
\* assertion of add_job on masked-out milestones never fails; and a job is
\* classified Retail exactly when its insurance flag is unset.
C27_AnalyzedJobsFitTheMask ==
    Analyzed =>
        /\ (/\ result.value.kind \in {Retail, InsuranceWithoutContingency}
            /\ Len(result.value.timestamps) > ContingencySigned) =>
               is_none(result.value.timestamps[ContingencySigned + 1])
        /\ \A i \in 1 .. Len(result.value.timestamps) :
             is_some(result.value.timestamps[i]) => StandardMask[result.value.kind][i - 1]
        /\ ~AddJobLoopOnFresh(result.value).panic
        /\ result.value.kind = Retail <=> ~job.insurance_checkbox

\* an installed job classified InsuranceWithoutContingency
C27_Witness ==
    /\ Analyzed
    /\ result.value.kind = InsuranceWithoutContingency
    /\ Len(result.value.timestamps) = NumMilestones
    /\ is_none(result.value.timestamps[ContingencySigned + 1])
    /\ unwrap(AddJobLoopOnFresh(result.value)
                .buckets[InsuranceWithoutContingency][Installed]).achieved = <<"0">>

-----------------------------------------------------------------------------
(* Invariants of a tracker filled by add_job (SpecTracker) *)

\* C28: within each kind's row the achieved count of an applicable milestone is
\* never smaller than that of a later applicable milestone, and every conversion
\* rate calc_stats returns lies between 0 and 1.
C28_FunnelMonotonic ==
    /\ \A k \in Kinds, m1, m2 \in Milestones :
         (m1 < m2 /\ mask[k][m1] /\ mask[k][m2]) =>
             AchievedCount(k, m1) >= AchievedCount(k, m2)
    /\ \A m \in Milestones, kinds \in KindSeqs :
         CanReach(m, kinds) =>
             LET rate == Stats(m, kinds).conversion_rate IN
             is_some(rate) =>
                 /\ 0 <= unwrap(rate)[1]
                 /\ unwrap(rate)[1] <= unwrap(rate)[2]

\* one of two jobs of a kind went on from its appointment: the counts drop
\* along the row and the rate is one half
C28_Witness ==
    \E k \in Kinds, m \in Milestones :
        /\ mask[k][AppointmentMade] /\ mask[k][m] /\ m > AppointmentMade
        /\ AchievedCount(k, AppointmentMade) = 2
        /\ AchievedCount(k, m) = 1
        /\ Stats(m, <<k>>).conversion_rate = Some(<<1, 2>>)

\* C29: the jobs of all kinds at AppointmentMade are as many as those at the
\* final milestone plus the lost jobs calc_stats_of_loss returns, so
\* appt_count = install_count + loss_conv.achieved.len() in
\* calculate_job_tracker_stats; every lost job returned was inserted with a loss
\* timestamp.
C29_AppointmentsAreInstalledOrLost ==
    LET loss == calc_stats_of_loss(buckets)
        appt == Stats(AppointmentMade, AllKinds)
        inst == Stats(Installed, AllKinds)
    IN /\ loss.tag = "LossStats"
       /\ appt.tag = "CalcStatsResult"
       /\ inst.tag = "CalcStatsResult"
       /\ Len(appt.achieved) = Len(inst.achieved) + Len(loss.lost)
       /\ \A n \in 1 .. Len(loss.lost) :
            \E i \in 1 .. Len(calls) :
                calls[i].job = loss.lost[n] /\ is_some(calls[i].loss_timestamp)
       /\ mask = StandardMask =>
            LET stats == calculate_job_tracker_stats(buckets) IN
            /\ stats.tag = "JobTrackerStats"
            /\ stats.appt_count = stats.install_count + Len(stats.loss_conv.achieved)

\* of two jobs with an appointment one was installed and one was lost, and a
\* job lost before any appointment is not among the lost jobs
C29_Witness ==
    /\ Len(Stats(AppointmentMade, AllKinds).achieved) = 2
    /\ Len(Stats(Installed, AllKinds).achieved) = 1
    /\ Len(calc_stats_of_loss(buckets).lost) = 1

\* a job lost before its appointment is in the tracker but not among the lost
C29_WitnessLostEarly ==
    /\ \E i \in 1 .. Len(calls) :
         Len(calls[i].timestamps) = 1 /\ is_some(calls[i].loss_timestamp)
    /\ Len(Stats(AppointmentMade, AllKinds).achieved) = 1
    /\ Len(calc_stats_of_loss(buckets).lost) = 1

-----------------------------------------------------------------------------
(* Order of insertion (SpecTracker) *)

\* a fresh tracker after the first n calls of cs
RECURSIVE ReplayCalls(_, _)
ReplayCalls(cs, n) ==
    IF n = 0 THEN JobTracker_new(mask)
    ELSE add_job(ReplayCalls(cs, n - 1), cs[n].job, cs[n].kind, cs[n].timestamps,
                 cs[n].loss_timestamp).buckets

\* the calls made so far, in the order p
Reordered(p) == [i \in 1 .. Len(calls) |-> calls[p[i]]]

\* the calls made so far whose position is in the set S, in their order
RECURSIVE Shard(_, _)
Shard(S, n) ==
    IF n = 0 THEN <<>>
    ELSE IF n \in S THEN Append(Shard(S, n - 1), calls[n]) ELSE Shard(S, n - 1)

\* the tracker holds, bucket by bucket, what the elementwise concatenation of
\* the buckets of b1 and b2 holds: their jobs together and the sums of their
\* cumulative times
SameAsMerged(b1, b2) ==
    \A k \in Kinds, m \in Milestones :
        mask[k][m] =>
            LET x == unwrap(b1[k][m])
                y == unwrap(b2[k][m])
                z == unwrap(buckets[k][m])
            IN /\ Len(z.achieved) = Len(x.achieved) + Len(y.achieved)
               /\ \A i \in 1 .. Len(calls) :
                    Occurrences(calls[i].job, z.achieved)
                      = Occurrences(calls[i].job, x.achieved)
                          + Occurrences(calls[i].job, y.achieved)
               /\ z.cum_achieve_time = x.cum_achieve_time + y.cum_achieve_time
               /\ z.cum_loss_time = x.cum_loss_time + y.cum_loss_time

\* the two trackers hold, bucket by bucket, the same jobs as a multiset and the
\* same cumulative times
SameBuckets(b1, b2) ==
    \A k \in Kinds, m \in Milestones :
        /\ is_some(b1[k][m]) <=> is_some(b2[k][m])
        /\ is_some(b1[k][m]) =>
             /\ Len(unwrap(b1[k][m]).achieved) = Len(unwrap(b2[k][m]).achieved)
             /\ \A i \in 1 .. Len(calls) :
                  Occurrences(calls[i].job, unwrap(b1[k][m]).achieved)
                    = Occurrences(calls[i].job, unwrap(b2[k][m]).achieved)
             /\ unwrap(b1[k][m]).cum_achieve_time = unwrap(b2[k][m]).cum_achieve_time
             /\ unwrap(b1[k][m]).cum_loss_time = unwrap(b2[k][m]).cum_loss_time

\* the two trackers give the same counts, rates and averages
SameStats(b1, b2) ==
    /\ \A m \in Milestones, kinds \in KindSeqs :
         CanReach(m, kinds) =>
             LET s1 == calc_stats(b1, m, kinds)
                 s2 == calc_stats(b2, m, kinds)
             IN /\ Len(s1.achieved) = Len(s2.achieved)
                /\ s1.conversion_rate = s2.conversion_rate
                /\ s1.average_time_to_achieve = s2.average_time_to_achieve
    /\ LET l1 == calc_stats_of_loss(b1)
           l2 == calc_stats_of_loss(b2)
       IN /\ Len(l1.lost) = Len(l2.lost)
          /\ l1.average_loss_time = l2.average_loss_time

\* C30: inserting the calls made so far in any other order, or into two trackers
\* whose buckets are then concatenated elementwise, gives for every bucket the
\* same achieved jobs as a multiset and the same cum_achieve_time and
\* cum_loss_time, and so the same counts, rates and averages from calc_stats and
\* calc_stats_of_loss.
C30_OrderIndependent ==
    /\ \A p \in Permutations(1 .. Len(calls)) :
         (\E i \in 1 .. Len(calls) : p[i] # i) =>
             LET other == ReplayCalls(Reordered(p), Len(calls)) IN
             SameBuckets(other, buckets) /\ SameStats(other, buckets)
    /\ \A S \in SUBSET (1 .. Len(calls)) :
         LET one == Shard(S, Len(calls))
             two == Shard((1 .. Len(calls)) \ S, Len(calls))
         IN SameAsMerged(ReplayCalls(one, Len(one)), ReplayCalls(two, Len(two)))

\* two jobs of one kind that took different times to their appointment and were
\* lost after different delays share their buckets
C30_Witness ==
    /\ Len(calls) = 2
    /\ calls[1].kind = calls[2].kind
    /\ calls[1].timestamps # calls[2].timestamps
    /\ Len(calls[1].timestamps) = 2 /\ Len(calls[2].timestamps) = 2
    /\ calls[1].loss_timestamp # calls[2].loss_timestamp
    /\ is_some(calls[1].loss_timestamp) /\ is_some(calls[2].loss_timestamp)
    /\ unwrap(buckets[calls[1].kind][AppointmentMade]).achieved = <<1, 2>>
    /\ unwrap(ReplayCalls(Reordered(<<2, 1>>), 2)[calls[1].kind][AppointmentMade]).achieved
         = <<2, 1>>

====
